---- MODULE Spec2Model ----
(***************************************************************************)
(* Drone / soil-sensor task scheduling of the precision agriculture        *)
(* simulation: DroneTaskScheduler (the online greedy scheduler and its     *)
(* registry of positions, batteries and task histories) and the periodic   *)
(* PrecisionAgricultureStrategy callback that drives it.                   *)
(*                                                                         *)
(* Numbers.  Batteries are the floats 100.0, 95.0, ...; every value the    *)
(* code can produce is integral, so they are integers here.  A Euclidean   *)
(* distance math.sqrt(n) is carried as its radicand n (sqrt is injective   *)
(* and monotone on n >= 0), and a cost  sqrt(d2) + pen2 * 0.5  as the pair *)
(* (d2, pen2); costs are compared in exact arithmetic by SqrtSumLess.      *)
(***************************************************************************)
EXTENDS Integers, Sequences, FiniteSets, TLC

\* ------------------------------------------------------------ bounds
NumDrones == 2
NumSensors == 2
MaxCalls == 2
MaxActivations == 2

\* ------------------------------------------------------- constants
None == 0
DroneBase == 50
SensorBase == 100
MecNode == 1
CloudNode == 0
GridStep == 10
FullBattery == 100
MinBattery == 20
TaskDrain == 5
RechargeStep == 20
LowBattery == 30
TasksPerActivation == 3

VARIABLES
    sensor_positions,   \* sensor id -> <<x, y>>
    drone_positions,    \* drone id  -> <<x, y>>
    drone_battery,      \* drone id  -> battery level
    assigned_tasks,     \* drone id  -> sequence of task records
    activations,        \* the strategy's activation counter
    data_collection_log,\* sequence of data collection entries
    drone_users,        \* drones deployed as DES sources
    edges,              \* the edges of sim.topology.G, each a set {a, b}
    call,               \* the last call made on the scheduler and its result
    calls,              \* direct scheduler calls so far that took effect
    streams,            \* request stream -> the call it is in the middle of
    \* TaskScheduler.generate_schedule (the batch optimizer)
    topo_drone_positions,  \* the argument drone_positions: <<x, y, id>> each
    topo_sensor_positions, \* the argument sensor_positions: <<x, y, id>> each
    algorithm,          \* the argument algorithm
    population,         \* genetic search: the population
    survivors,          \* genetic search: the upper half of the ranking
    new_population,     \* genetic search: the population being refilled
    child,              \* genetic search: the child being bred
    generation,         \* genetic search: generations completed
    assignments,        \* the partition returned: drone index -> sensors
    schedule,           \* the schedule returned
    pc,                 \* where the batch optimizer stands
    batch_raised        \* the exception generate_schedule raised, if any

strategy_vars ==
    <<sensor_positions, drone_positions, drone_battery, assigned_tasks,
      activations, data_collection_log, drone_users, edges, call, calls,
      streams>>

batch_vars ==
    <<topo_drone_positions, topo_sensor_positions, algorithm, population,
      survivors, new_population, child, generation, assignments, schedule, pc,
      batch_raised>>

vars == <<strategy_vars, batch_vars>>

\* ------------------------------------------------------------ helpers
Min(a, b) == IF a < b THEN a ELSE b

RECURSIVE ISqrtFrom(_, _)
ISqrtFrom(n, r) == IF (r + 1) * (r + 1) > n THEN r ELSE ISqrtFrom(n, r + 1)

\* int(math.sqrt(n))
ISqrt(n) == ISqrtFrom(n, 0)

Range(f) == {f[x] : x \in DOMAIN f}

\* ------------------------------------------------ _initialize_positions
grid_size == ISqrt(NumSensors) + 2

DroneIds == {DroneBase + i : i \in 0..(NumDrones - 1)}
SensorIds == {SensorBase + k : k \in 0..(NumSensors - 1)}

\* The k-th sensor placed by the nested i, j loops over the grid.
SensorGrid ==
    [s \in SensorIds |->
        <<((s - SensorBase) \div grid_size) * GridStep,
          ((s - SensorBase) % grid_size) * GridStep>>]

\* random.randint(0, grid_size * 10) for each coordinate, both ends included;
\* the model draws from a corner and an interior point.
StartPositions == {<<0, 0>>, <<7, 13>>}

\* Iteration order of the drone dictionaries: insertion order, 50, 51, ...
DroneOrder(registry) ==
    [i \in 1..Cardinality(DOMAIN registry) |-> DroneBase + i - 1]

\* ------------------------------------------------- calculate_distance
\* The radicand of math.sqrt((x1 - x2)**2 + (y1 - y2)**2).
calculate_distance(pos1, pos2) ==
    (pos1[1] - pos2[1]) * (pos1[1] - pos2[1])
        + (pos1[2] - pos2[2]) * (pos1[2] - pos2[2])

\* ------------------------------------------------------ schedule_task
\* battery_penalty = (100 - battery) * 0.5, carried doubled: 100 - battery.
battery_penalty(battery) == FullBattery - battery

\* cost = distance + battery_penalty, as the pair (radicand, doubled penalty).
Cost(drone_pos, battery, sensor_pos) ==
    [inf |-> FALSE,
     d2 |-> calculate_distance(drone_pos, sensor_pos),
     pen2 |-> battery_penalty(battery)]

\* float('inf')
Infinity == [inf |-> TRUE, d2 |-> 0, pen2 |-> 0]

\* sqrt(a) + p/2 < sqrt(b) + q/2 in exact arithmetic: with K = q - p it is
\* sqrt(4a) < sqrt(4b) + K, squared once or twice according to the signs.
SqrtSumLess(a, p, b, q) ==
    LET A == 4 * a
        B == 4 * b
        K == q - p
    IN  IF K >= 0
        THEN LET L == A - B - K * K
             IN  L < 0 \/ L * L < 4 * K * K * B
        ELSE LET R == B - A - K * K
             IN  R > 0 /\ 4 * K * K * A < R * R

\* cost <= min_cost: the strict comparison written as a non-strict one.
CostLess_OrEqual(cost, min_cost) ==
    IF min_cost.inf THEN TRUE
    ELSE ~SqrtSumLess(min_cost.d2, min_cost.pen2, cost.d2, cost.pen2)

\* cost < min_cost
CostLess(cost, min_cost) ==
    IF min_cost.inf THEN TRUE
    ELSE SqrtSumLess(cost.d2, cost.pen2, min_cost.d2, min_cost.pen2)

\* The threshold test with the threshold left out, and with >= for >.
Eligible_AnyCharge(battery) == battery > 0
Eligible_AtThreshold(battery) == battery >= MinBattery

\* self.drone_battery[drone_id] > 20
Eligible(battery) == battery > MinBattery

\* The for loop over self.drone_positions.items(): the i-th drone onwards,
\* with the best drone and the minimal cost found so far.
RECURSIVE SelectDrone(_, _, _, _, _, _)
SelectDrone(i, best_drone, min_cost, pos, bat, sensor_pos) ==
    IF i > Len(DroneOrder(pos)) THEN best_drone
    ELSE LET drone_id == DroneOrder(pos)[i]
             cost == Cost(pos[drone_id], bat[drone_id], sensor_pos)
         IN  IF Eligible(bat[drone_id]) /\ CostLess(cost, min_cost)
             THEN SelectDrone(i + 1, drone_id, cost, pos, bat, sensor_pos)
             ELSE SelectDrone(i + 1, best_drone, min_cost, pos, bat, sensor_pos)

\* The record built after the drone was moved: its distance is measured from
\* the sensor itself.
TaskRecord_AfterMove(sensor_id, current_time, drone_pos, sensor_pos) ==
    [sensor |-> sensor_id,
     time |-> current_time,
     distance |-> calculate_distance(sensor_pos, sensor_pos)]

\* The dictionary appended to assigned_tasks[best_drone].
TaskRecord(sensor_id, current_time, drone_pos, sensor_pos) ==
    [sensor |-> sensor_id,
     time |-> current_time,
     distance |-> calculate_distance(drone_pos, sensor_pos)]

\* The history assigned instead of appended to.
AppendTask_Overwrite(history, task) == <<task>>

\* self.assigned_tasks[best_drone].append(...)
AppendTask(history, task) == Append(history, task)

\* The position update left out.
MoveTo_Stay(drone_pos, sensor_pos) == drone_pos

\* self.drone_positions[best_drone] = sensor_pos
MoveTo(drone_pos, sensor_pos) == sensor_pos

\* max written for min.
BatteryAfterTask_Max(battery) ==
    battery - (IF TaskDrain > battery THEN TaskDrain ELSE battery)

\* A drain of 3 per task.
BatteryAfterTask_Three(battery) == battery - Min(3, battery)

\* self.drone_battery[best_drone] -= min(5, self.drone_battery[best_drone])
BatteryAfterTask(battery) == battery - Min(TaskDrain, battery)

\* What a call raised: nothing, or the KeyError of a dictionary lookup.
NoError == "none"
KeyError == "KeyError"

\* return None, the registry untouched.
NoAssignment(pos, bat, tasks) ==
    [drone_positions |-> pos, drone_battery |-> bat, assigned_tasks |-> tasks,
     ret |-> None, raised |-> NoError]

\* self.sensor_positions[sensor_id] on a missing key: the call ends in a
\* KeyError, nothing having been written.
RaiseKeyError(pos, bat, tasks) ==
    [drone_positions |-> pos, drone_battery |-> bat, assigned_tasks |-> tasks,
     ret |-> None, raised |-> KeyError]

\* The membership test left out.
KnownSensor_Always(sp, sensor_id) == TRUE

\* sensor_id in self.sensor_positions
KnownSensor(sp, sensor_id) == sensor_id \in DOMAIN sp

\* The whole fleet moved to the sensor with the drone that serves it.
Assign_Fleet(best_drone, sp, pos, bat, tasks, sensor_id, current_time) ==
    [drone_positions |-> [d \in DOMAIN pos |-> sp[sensor_id]],
     drone_battery |->
        [bat EXCEPT ![best_drone] = BatteryAfterTask(bat[best_drone])],
     assigned_tasks |->
        [tasks EXCEPT ![best_drone] =
            AppendTask(tasks[best_drone],
                       TaskRecord(sensor_id, current_time,
                                  pos[best_drone], sp[sensor_id]))],
     ret |-> best_drone, raised |-> NoError]

\* The if best_drone: branch.
Assign(best_drone, sp, pos, bat, tasks, sensor_id, current_time) ==
    [drone_positions |->
        [pos EXCEPT ![best_drone] = MoveTo(pos[best_drone], sp[sensor_id])],
     drone_battery |->
        [bat EXCEPT ![best_drone] = BatteryAfterTask(bat[best_drone])],
     assigned_tasks |->
        [tasks EXCEPT ![best_drone] =
            AppendTask(tasks[best_drone],
                       TaskRecord(sensor_id, current_time,
                                  pos[best_drone], sp[sensor_id]))],
     ret |-> best_drone, raised |-> NoError]

\* schedule_task(sensor_id, current_time) on the registry (sp, pos, bat, tasks):
\* the registry afterwards and the value returned.
schedule_task(sp, pos, bat, tasks, sensor_id, current_time) ==
    IF ~KnownSensor(sp, sensor_id) THEN NoAssignment(pos, bat, tasks)
    ELSE IF sensor_id \notin DOMAIN sp THEN RaiseKeyError(pos, bat, tasks)
    ELSE LET best_drone == SelectDrone(1, None, Infinity, pos, bat, sp[sensor_id])
         IN  IF best_drone # None
             THEN Assign(best_drone, sp, pos, bat, tasks, sensor_id, current_time)
             ELSE NoAssignment(pos, bat, tasks)

\* ----------------------------------------------------- recharge_drone
\* The clamp left out, and the step of a task's drain used for the recharge.
RechargeLevel_NoClamp(battery) == battery + RechargeStep
RechargeLevel_WrongStep(battery) == Min(FullBattery, battery + TaskDrain)
\* A recharge that fills the battery at once.
RechargeLevel_Fill(battery) == FullBattery

\* A recharge that adds a single unit.
RechargeLevel_Trickle(battery) == Min(FullBattery, battery + 1)

\* A recharge that adds nothing.
RechargeLevel_Stay(battery) == battery

\* min(100, self.drone_battery[drone_id] + 20)
RechargeLevel(battery) == Min(FullBattery, battery + RechargeStep)

\* Every drone of the fleet recharged along with the named one.
recharge_drone_All(bat, drone_id) ==
    IF drone_id \in DOMAIN bat
    THEN [d \in DOMAIN bat |-> RechargeLevel(bat[d])]
    ELSE bat

\* recharge_drone(drone_id): the battery dictionary afterwards.
recharge_drone(bat, drone_id) ==
    IF drone_id \in DOMAIN bat
    THEN [bat EXCEPT ![drone_id] = RechargeLevel(bat[drone_id])]
    ELSE bat

\* ------------------------------------------ PrecisionAgricultureStrategy
\* The undirected edge (a, b) of sim.topology.G.
Edge(a, b) == {a, b}

\* create_precision_agriculture_topology: cloud - MEC, MEC - every drone, and
\* the i-th sensor to the i-th drone for i < num_drones.
create_precision_agriculture_topology(num_drones, num_sensors) ==
    {Edge(CloudNode, MecNode)}
        \cup {Edge(MecNode, DroneBase + i) : i \in 0..(num_drones - 1)}
        \cup {Edge(DroneBase + i, SensorBase + i) :
                i \in 0..(Min(num_drones, num_sensors) - 1)}

\* The topology main builds for the fleet and the sensors of the bounds.
InitialEdges == create_precision_agriculture_topology(NumDrones, NumSensors)

\* The edge removed when it is there already.
EnsureEdge_Toggle(E, a, b) ==
    IF Edge(a, b) \in E THEN E \ {Edge(a, b)} ELSE E \cup {Edge(a, b)}

\* if not G.has_edge(a, b): G.add_edge(a, b)
EnsureEdge(E, a, b) == IF Edge(a, b) \in E THEN E ELSE E \cup {Edge(a, b)}

\* move_drone_to_sensor(sim, drone_id, sensor_id) at time now: the edges and
\* the data collection log afterwards.
move_drone_to_sensor(users, E, log, bat, drone_id, sensor_id, now) ==
    IF drone_id \in users
    THEN [edges |-> EnsureEdge(E, drone_id, sensor_id),
          log |-> Append(log, [time |-> now, drone_id |-> drone_id,
                               sensor_id |-> sensor_id,
                               battery |-> bat[drone_id]])]
    ELSE [edges |-> E, log |-> log]

\* random.sample(list(sensor_positions.keys()), k): the orderings of k
\* pairwise distinct sensors.
Samples(S, k) ==
    {q \in [1..k -> S] : \A i, j \in 1..k : i # j => q[i] # q[j]}

\* Every sensor served in an activation, however many there are.
num_tasks_All(sp) == Cardinality(DOMAIN sp)

\* num_tasks = min(3, len(self.scheduler.sensor_positions))
num_tasks(sp) == Min(TasksPerActivation, Cardinality(DOMAIN sp))

\* for sensor_id in selected_sensors: schedule_task, then move_drone_to_sensor
\* when a drone was returned; st holds the registry, the edges, the log, the
\* sensor ids schedule_task was called with and what each call returned.
RECURSIVE ScheduleSelected(_, _, _, _, _, _)
ScheduleSelected(i, selected_sensors, sp, users, now, st) ==
    IF i > Len(selected_sensors) THEN st
    ELSE LET sensor_id == selected_sensors[i]
             r == schedule_task(sp, st.drone_positions, st.drone_battery,
                                st.assigned_tasks, sensor_id, now)
             m == IF r.ret # None
                  THEN move_drone_to_sensor(users, st.edges, st.log,
                                            r.drone_battery, r.ret, sensor_id, now)
                  ELSE [edges |-> st.edges, log |-> st.log]
         IN  ScheduleSelected(i + 1, selected_sensors, sp, users, now,
                [drone_positions |-> r.drone_positions,
                 drone_battery |-> r.drone_battery,
                 assigned_tasks |-> r.assigned_tasks,
                 edges |-> m.edges,
                 log |-> m.log,
                 scheduled |-> Append(st.scheduled, sensor_id),
                 returned |-> Append(st.returned, r.ret)])

\* The recharge loop triggered at the operating threshold only.
NeedsRecharge_AtThreshold(battery) == battery <= MinBattery

\* battery < 30
NeedsRecharge(battery) == battery < LowBattery

\* for drone_id, battery in drone_battery.items(): recharge the low ones and
\* ensure their edge to the MEC node; st holds the batteries and the edges.
RECURSIVE RechargeLow(_, _, _)
RechargeLow(i, users, st) ==
    IF i > Len(DroneOrder(st.drone_battery)) THEN st
    ELSE LET drone_id == DroneOrder(st.drone_battery)[i]
         IN  IF NeedsRecharge(st.drone_battery[drone_id])
             THEN RechargeLow(i + 1, users,
                    [drone_battery |-> recharge_drone(st.drone_battery, drone_id),
                     edges |-> IF drone_id \in users
                               THEN EnsureEdge(st.edges, drone_id, MecNode)
                               ELSE st.edges])
             ELSE RechargeLow(i + 1, users, st)

\* ------------------------------------------------------------ states
UnknownSensor == SensorBase + NumSensors
UnknownDrone == DroneBase + NumDrones

\* sim.env.now, the tick handed on as current_time: the time source advances
\* by one with every operation that takes effect.
Clock == calls + activations

NoCall == [op |-> "none", arg |-> None, time |-> 0, ret |-> None,
           raised |-> NoError]

\* The request streams of a host that calls the scheduler from several
\* threads of control.
NumStreams == 2
StreamIds == 1..NumStreams

\* A stream that is not inside a call.
IdleStream == [pc |-> "idle", sensor_id |-> None, current_time |-> 0,
               best_drone |-> None, drone_id |-> None, battery |-> 0]

\* No stream is inside a call.
IdleStreams == [s \in StreamIds |-> IdleStream]

\* No TaskScheduler at work: generate_schedule has not been called.
BatchIdle ==
    /\ topo_drone_positions = <<>>
    /\ topo_sensor_positions = <<>>
    /\ algorithm = "kmeans"
    /\ population = <<>>
    /\ survivors = <<>>
    /\ new_population = <<>>
    /\ child = <<>>
    /\ generation = 0
    /\ assignments = <<>>
    /\ schedule = <<>>
    /\ pc = "idle"
    /\ batch_raised = "none"

\* DroneTaskScheduler.__init__ and PrecisionAgricultureStrategy.__init__.
Init ==
    /\ sensor_positions = SensorGrid
    /\ drone_positions \in [DroneIds -> StartPositions]
    /\ drone_battery = [d \in DroneIds |-> FullBattery]
    /\ assigned_tasks = [d \in DroneIds |-> <<>>]
    /\ activations = 0
    /\ data_collection_log = <<>>
    /\ drone_users = {}
    /\ edges = InitialEdges
    /\ call = NoCall
    /\ calls = 0
    /\ streams = IdleStreams
    /\ BatchIdle

\* A direct call schedule_task(sensor_id, current_time).
ScheduleTask(sensor_id, current_time) ==
    /\ calls < MaxCalls
    /\ LET r == schedule_task(sensor_positions, drone_positions, drone_battery,
                              assigned_tasks, sensor_id, current_time)
       IN  /\ drone_positions' = r.drone_positions
           /\ drone_battery' = r.drone_battery
           /\ assigned_tasks' = r.assigned_tasks
           /\ call' = [op |-> "schedule_task", arg |-> sensor_id,
                       time |-> current_time, ret |-> r.ret,
                       raised |-> r.raised]
           /\ calls' = IF r.ret # None THEN calls + 1 ELSE calls
    /\ UNCHANGED <<sensor_positions, activations, data_collection_log,
                   drone_users, edges, streams, batch_vars>>

\* A direct call recharge_drone(drone_id).
RechargeDrone(drone_id) ==
    /\ calls < MaxCalls
    /\ drone_battery' = recharge_drone(drone_battery, drone_id)
    /\ call' = [op |-> "recharge_drone", arg |-> drone_id, time |-> 0,
                ret |-> None, raised |-> NoError]
    /\ calls' = IF drone_id \in DOMAIN drone_battery THEN calls + 1 ELSE calls
    /\ UNCHANGED <<sensor_positions, drone_positions, assigned_tasks,
                   activations, data_collection_log, drone_users, edges,
                   streams, batch_vars>>

\* main's loop  for i in range(NUM_DRONES): strategy.deploy_drone_user(s, 50 + i)
\* (each call records the drone in drone_users).
DeployDroneUsers ==
    /\ drone_users # DroneIds
    /\ drone_users' = drone_users \cup DroneIds
    /\ call' = [op |-> "deploy_drone_user", arg |-> None, time |-> 0,
                ret |-> None, raised |-> NoError]
    /\ UNCHANGED <<sensor_positions, drone_positions, drone_battery,
                   assigned_tasks, activations, data_collection_log, edges,
                   calls, streams, batch_vars>>

\* The body of PrecisionAgricultureStrategy.__call__ on the strategy st in its
\* activation number acts + 1: the scheduling step on the even activations,
\* then the recharge loop.
strategy_call(acts, sp, users, st, now, selected_sensors) ==
    LET start == [drone_positions |-> st.drone_positions,
                  drone_battery |-> st.drone_battery,
                  assigned_tasks |-> st.assigned_tasks,
                  edges |-> st.edges,
                  log |-> st.log,
                  scheduled |-> <<>>,
                  returned |-> <<>>]
        s == IF (acts + 1) % 2 = 0
             THEN ScheduleSelected(1, selected_sensors, sp, users, now, start)
             ELSE start
        r == RechargeLow(1, users,
                         [drone_battery |-> s.drone_battery,
                          edges |-> s.edges])
    IN  [drone_positions |-> s.drone_positions,
         drone_battery |-> r.drone_battery,
         assigned_tasks |-> s.assigned_tasks,
         edges |-> r.edges,
         log |-> s.log,
         scheduled |-> s.scheduled,
         returned |-> s.returned]

\* One activation of the strategy, whoever triggers it.
Activation(now, selected_sensors) ==
    /\ activations' = activations + 1
    /\ LET r == strategy_call(activations, sensor_positions, drone_users,
                              [drone_positions |-> drone_positions,
                               drone_battery |-> drone_battery,
                               assigned_tasks |-> assigned_tasks,
                               edges |-> edges,
                               log |-> data_collection_log],
                              now, selected_sensors)
       IN  /\ drone_positions' = r.drone_positions
           /\ assigned_tasks' = r.assigned_tasks
           /\ data_collection_log' = r.log
           /\ drone_battery' = r.drone_battery
           /\ edges' = r.edges
           /\ call' = [op |-> "activate", arg |-> r.scheduled, time |-> now,
                       ret |-> None, raised |-> NoError,
                       returned |-> r.returned]
    /\ UNCHANGED <<sensor_positions, drone_users, calls, streams, batch_vars>>

\* PrecisionAgricultureStrategy.__call__ at simulation time now, random.sample
\* returning selected_sensors.
Activate(now, selected_sensors) ==
    /\ activations < MaxActivations
    /\ Activation(now, selected_sensors)

\* What random.sample can return in the coming activation; it is called on
\* the even activations only.
SelectedSensors ==
    IF (activations + 1) % 2 = 0
    THEN Samples(DOMAIN sensor_positions, num_tasks(sensor_positions))
    ELSE {<<>>}

Next ==
    \/ \E sensor_id \in SensorIds \cup {UnknownSensor} :
            ScheduleTask(sensor_id, Clock)
    \/ \E drone_id \in DroneIds \cup {UnknownDrone} : RechargeDrone(drone_id)
    \/ DeployDroneUsers
    \/ \E selected_sensors \in SelectedSensors : Activate(Clock, selected_sensors)

Spec == Init /\ [][Next]_vars

\* ------------------------------------------------------ a worn fleet
\* The levels a fleet is worn down to: the operating threshold, where no drone
\* is eligible any more, and one task above it.
WornLevels == {MinBattery, MinBattery + TaskDrain}

\* The registry after the calls schedule_task(100, 0), schedule_task(101, 0),
\* ... (the sensors in turn) made on the registry st until every drone is at
\* or below level; k is the number of calls made so far.
RECURSIVE WearDown(_, _, _, _)
WearDown(sp, st, k, level) ==
    IF \A d \in DOMAIN st.drone_battery : st.drone_battery[d] <= level
    THEN st
    ELSE WearDown(sp,
            schedule_task(sp, st.drone_positions, st.drone_battery,
                          st.assigned_tasks, SensorBase + (k % NumSensors), 0),
            k + 1, level)

\* The fleets that are worn down: the one constructed with every drone at the
\* interior point.
WornStarts == {[d \in DroneIds |-> <<7, 13>>]}

\* The strategy after construction followed by such a run of direct calls.
WornFleet ==
    \E start \in WornStarts, level \in WornLevels :
        LET w == WearDown(SensorGrid,
                    [drone_positions |-> start,
                     drone_battery |-> [d \in DroneIds |-> FullBattery],
                     assigned_tasks |-> [d \in DroneIds |-> <<>>],
                     ret |-> None, raised |-> NoError], 0, level)
        IN  /\ sensor_positions = SensorGrid
            /\ drone_positions = w.drone_positions
            /\ drone_battery = w.drone_battery
            /\ assigned_tasks = w.assigned_tasks
            /\ activations = 0
            /\ data_collection_log = <<>>
            /\ drone_users = {}
            /\ edges = InitialEdges
            /\ call = NoCall
            /\ calls = 0
            /\ streams = IdleStreams
            /\ BatchIdle

\* Observation starts at construction or with a worn fleet.
InitWorn == Init \/ WornFleet

SpecWorn == InitWorn /\ [][Next]_vars

\* ------------------------------------------------------ a larger field
\* The sensors of a scheduler constructed with more sensors than an activation
\* serves.
FieldSensors == 4

\* _initialize_positions for FieldSensors sensors.
FieldGrid ==
    [s \in {SensorBase + k : k \in 0..(FieldSensors - 1)} |->
        <<((s - SensorBase) \div (ISqrt(FieldSensors) + 2)) * GridStep,
          ((s - SensorBase) % (ISqrt(FieldSensors) + 2)) * GridStep>>]

\* The strategy after construction over the larger field.
InitField ==
    /\ sensor_positions = FieldGrid
    /\ drone_positions \in WornStarts
    /\ drone_battery = [d \in DroneIds |-> FullBattery]
    /\ assigned_tasks = [d \in DroneIds |-> <<>>]
    /\ activations = 0
    /\ data_collection_log = <<>>
    /\ drone_users = {}
    /\ edges = InitialEdges
    /\ call = NoCall
    /\ calls = 0
    /\ streams = IdleStreams
    /\ BatchIdle

SpecField == InitField /\ [][Next]_vars

\* ------------------------------------------- the orchestrator's loop
\* The program as main runs it: the drones are deployed before the simulation
\* starts, and from then on the periodic activation is the only caller of
\* schedule_task and recharge_drone.
LoopDrones == 1
MaxTicks == 4

\* The fleet of the loop, 50, 51, ...
LoopFleet == {DroneBase + i : i \in 0..(LoopDrones - 1)}

\* The strategy when s.run starts: constructed over the larger field, every
\* drone deployed, nothing scheduled yet.
Deployed ==
    [drone_positions |-> [d \in LoopFleet |-> <<7, 13>>],
     drone_battery |-> [d \in LoopFleet |-> FullBattery],
     assigned_tasks |-> [d \in LoopFleet |-> <<>>],
     edges |-> create_precision_agriculture_topology(LoopDrones, FieldSensors),
     log |-> <<>>]

\* The sample 100, 101, ... of the size an activation serves.
FirstSensors(sp) == [i \in 1..num_tasks(sp) |-> SensorBase + i - 1]

\* The loop run on from st, acts activations old, with random.sample
\* returning FirstSensors each time, until an activation has left a drone at
\* 30 or below: the coming scheduling step can bring that drone to the
\* operating threshold.
RECURSIVE WarmUp(_, _)
WarmUp(st, acts) ==
    IF \E d \in LoopFleet : st.drone_battery[d] <= LowBattery
    THEN [st |-> st, acts |-> acts]
    ELSE WarmUp(strategy_call(acts, FieldGrid, LoopFleet, st, acts,
                              FirstSensors(FieldGrid)),
                acts + 1)

\* The loop at its start and after such a run.
LoopStarts == {[st |-> Deployed, acts |-> 0], WarmUp(Deployed, 0)}

\* Observation of the loop starts at one of these points.
InitLoop ==
    \E w \in LoopStarts :
        /\ sensor_positions = FieldGrid
        /\ drone_positions = w.st.drone_positions
        /\ drone_battery = w.st.drone_battery
        /\ assigned_tasks = w.st.assigned_tasks
        /\ activations = w.acts
        /\ data_collection_log = w.st.log
        /\ drone_users = LoopFleet
        /\ edges = w.st.edges
        /\ call = NoCall
        /\ calls = 0
        /\ streams = IdleStreams
        /\ BatchIdle

\* MaxTicks activations are observed from either point.
TicksLeft ==
    \E w \in LoopStarts :
        activations >= w.acts /\ activations < w.acts + MaxTicks

\* The monitor's periodic message triggers the strategy.
Tick(selected_sensors) ==
    /\ TicksLeft
    /\ Activation(Clock, selected_sensors)

NextLoop == \E selected_sensors \in SelectedSensors : Tick(selected_sensors)

SpecLoop == InitLoop /\ [][NextLoop]_vars

\* What every step of the loop does to the activation counter, and only a
\* step of the loop does.
TickTaken == TicksLeft /\ activations' = activations + 1

\* The monitor's distribution keeps sending its message every period while
\* the simulation runs: an activation that can happen does happen.
SpecLoopFair == SpecLoop /\ WF_activations(TickTaken)

\* --------------------------------------- overlapping request streams
\* schedule_task and recharge_drone called from several threads of control
\* with nothing in the scheduler serializing them: each action is a stretch
\* of a call between two points at which another thread can run.

\* schedule_task up to the end of the selection loop: the membership test,
\* then best_drone chosen from the positions and batteries as they are now.
BeginScheduleTask(s, sensor_id, current_time) ==
    /\ streams[s].pc = "idle"
    /\ calls < MaxCalls
    /\ calls' = calls + 1
    /\ LET best_drone ==
            IF KnownSensor(sensor_positions, sensor_id)
            THEN SelectDrone(1, None, Infinity, drone_positions, drone_battery,
                             sensor_positions[sensor_id])
            ELSE None
       IN  IF best_drone = None
           THEN /\ call' = [op |-> "schedule_task", arg |-> sensor_id,
                            time |-> current_time, ret |-> None,
                            raised |-> NoError]
                /\ UNCHANGED streams
           ELSE /\ streams' = [streams EXCEPT ![s] =
                        [pc |-> "append", sensor_id |-> sensor_id,
                         current_time |-> current_time,
                         best_drone |-> best_drone, drone_id |-> None,
                         battery |-> 0]]
                /\ UNCHANGED call
    /\ UNCHANGED <<sensor_positions, drone_positions, drone_battery,
                   assigned_tasks, activations, data_collection_log,
                   drone_users, edges, batch_vars>>

\* self.assigned_tasks[best_drone].append({...}), the distance measured from
\* the drone's position as it is now.
AppendRecord(s) ==
    /\ streams[s].pc = "append"
    /\ LET me == streams[s]
       IN  assigned_tasks' = [assigned_tasks EXCEPT ![me.best_drone] =
                AppendTask(assigned_tasks[me.best_drone],
                           TaskRecord(me.sensor_id, me.current_time,
                                      drone_positions[me.best_drone],
                                      sensor_positions[me.sensor_id]))]
    /\ streams' = [streams EXCEPT ![s].pc = "move"]
    /\ UNCHANGED <<sensor_positions, drone_positions, drone_battery,
                   activations, data_collection_log, drone_users, edges, call,
                   calls, batch_vars>>

\* self.drone_positions[best_drone] = sensor_pos
MoveDrone(s) ==
    /\ streams[s].pc = "move"
    /\ LET me == streams[s]
       IN  drone_positions' = [drone_positions EXCEPT ![me.best_drone] =
                MoveTo(drone_positions[me.best_drone],
                       sensor_positions[me.sensor_id])]
    /\ streams' = [streams EXCEPT ![s].pc = "drain"]
    /\ UNCHANGED <<sensor_positions, drone_battery, assigned_tasks,
                   activations, data_collection_log, drone_users, edges, call,
                   calls, batch_vars>>

\* self.drone_battery[best_drone] -= min(5, ...): the battery is loaded.
LoadBattery(s) ==
    /\ streams[s].pc = "drain"
    /\ streams' = [streams EXCEPT ![s].pc = "store",
                                  ![s].battery =
                                        drone_battery[streams[s].best_drone]]
    /\ UNCHANGED <<sensor_positions, drone_positions, drone_battery,
                   assigned_tasks, activations, data_collection_log,
                   drone_users, edges, call, calls, batch_vars>>

\* ... and the difference is stored; return best_drone.
StoreBattery(s) ==
    /\ streams[s].pc = "store"
    /\ LET me == streams[s]
       IN  /\ drone_battery' = [drone_battery EXCEPT ![me.best_drone] =
                    BatteryAfterTask(me.battery)]
           /\ call' = [op |-> "schedule_task", arg |-> me.sensor_id,
                       time |-> me.current_time, ret |-> me.best_drone,
                       raised |-> NoError]
    /\ streams' = [streams EXCEPT ![s] = IdleStream]
    /\ UNCHANGED <<sensor_positions, drone_positions, assigned_tasks,
                   activations, data_collection_log, drone_users, edges, calls,
                   batch_vars>>

\* recharge_drone: the membership test and the load of the battery in
\* min(100, self.drone_battery[drone_id] + 20).
BeginRecharge(s, drone_id) ==
    /\ streams[s].pc = "idle"
    /\ calls < MaxCalls
    /\ drone_id \in DOMAIN drone_battery
    /\ calls' = calls + 1
    /\ streams' = [streams EXCEPT ![s] =
            [pc |-> "recharge", sensor_id |-> None, current_time |-> 0,
             best_drone |-> None, drone_id |-> drone_id,
             battery |-> drone_battery[drone_id]]]
    /\ UNCHANGED <<sensor_positions, drone_positions, drone_battery,
                   assigned_tasks, activations, data_collection_log,
                   drone_users, edges, call, batch_vars>>

\* self.drone_battery[drone_id] = ...: the store.
StoreRecharge(s) ==
    /\ streams[s].pc = "recharge"
    /\ LET me == streams[s]
       IN  /\ drone_battery' = [drone_battery EXCEPT ![me.drone_id] =
                    RechargeLevel(me.battery)]
           /\ call' = [op |-> "recharge_drone", arg |-> me.drone_id,
                       time |-> 0, ret |-> None, raised |-> NoError]
    /\ streams' = [streams EXCEPT ![s] = IdleStream]
    /\ UNCHANGED <<sensor_positions, drone_positions, assigned_tasks,
                   activations, data_collection_log, drone_users, edges, calls,
                   batch_vars>>

NextStreams ==
    \E s \in StreamIds :
        \/ \E sensor_id \in SensorIds : BeginScheduleTask(s, sensor_id, Clock)
        \/ AppendRecord(s)
        \/ MoveDrone(s)
        \/ LoadBattery(s)
        \/ StoreBattery(s)
        \/ \E drone_id \in DroneIds : BeginRecharge(s, drone_id)
        \/ StoreRecharge(s)

SpecStreams == InitWorn /\ [][NextStreams]_vars

\* ------------------------------------------------- the construction
\* DroneTaskScheduler(num_drones, num_sensors) and the topology for the same
\* counts, for the counts up to these bounds and for the smallest fleet whose
\* ids reach the sensors' base.
MaxInitDrones == 2
MaxInitSensors == 6

\* grid_size = int(math.sqrt(self.num_sensors)) + 2
GridSize(num_sensors) == ISqrt(num_sensors) + 2

\* Sensors laid along the columns first.
PlaceSensors_ColumnMajor(num_sensors) ==
    [s \in {SensorBase + k : k \in 0..(num_sensors - 1)} |->
        <<((s - SensorBase) % GridSize(num_sensors)) * GridStep,
          ((s - SensorBase) \div GridSize(num_sensors)) * GridStep>>]

\* The nested loops  for i in range(grid_size): for j in range(grid_size)
\* placing sensor 100 + sensor_idx at (i * 10, j * 10) while sensor_idx <
\* num_sensors; the grid has more cells than there are sensors, so every
\* sensor is placed.
PlaceSensors(num_sensors) ==
    [s \in {SensorBase + k : k \in 0..(num_sensors - 1)} |->
        <<((s - SensorBase) \div GridSize(num_sensors)) * GridStep,
          ((s - SensorBase) % GridSize(num_sensors)) * GridStep>>]

\* The drone ids 50 + i for i in range(num_drones).
FleetIds(num_drones) == {DroneBase + i : i \in 0..(num_drones - 1)}

\* random.randint(0, grid_size * 10) for each coordinate, both ends included:
\* the two extreme corners and an interior point.
BoxPoints(num_sensors) ==
    {<<0, 0>>, <<7, 13>>,
     <<GridSize(num_sensors) * GridStep, GridSize(num_sensors) * GridStep>>}

\* The smallest fleet in which a drone gets the id of the first sensor.
CollidingFleet == SensorBase - DroneBase + 1

FleetSizes == 0..MaxInitDrones \cup {CollidingFleet}

\* The positions the drones can be given: every combination for the small
\* fleets, all drones at one point for the large one.
DronePlacements(num_drones, num_sensors) ==
    IF num_drones <= MaxInitDrones
    THEN [FleetIds(num_drones) -> BoxPoints(num_sensors)]
    ELSE {[d \in FleetIds(num_drones) |-> p] : p \in BoxPoints(num_sensors)}

\* Nothing constructed yet.
NotConstructed ==
    /\ sensor_positions = <<>>
    /\ drone_positions = <<>>
    /\ drone_battery = <<>>
    /\ assigned_tasks = <<>>
    /\ activations = 0
    /\ data_collection_log = <<>>
    /\ drone_users = {}
    /\ edges = {}
    /\ call = NoCall
    /\ calls = 0
    /\ streams = IdleStreams
    /\ BatchIdle

\* create_precision_agriculture_topology(num_drones, num_sensors) and
\* DroneTaskScheduler(num_drones, num_sensors), the drones drawn at start.
Construct(num_drones, num_sensors, start) ==
    /\ call.op = "none"
    /\ sensor_positions' = PlaceSensors(num_sensors)
    /\ drone_positions' = start
    /\ drone_battery' = [d \in FleetIds(num_drones) |-> FullBattery]
    /\ assigned_tasks' = [d \in FleetIds(num_drones) |-> <<>>]
    /\ edges' = create_precision_agriculture_topology(num_drones, num_sensors)
    /\ call' = [op |-> "initialize", arg |-> <<num_drones, num_sensors>>,
                time |-> 0, ret |-> None, raised |-> NoError]
    /\ UNCHANGED <<activations, data_collection_log, drone_users, calls,
                   streams, batch_vars>>

NextConstruct ==
    \E num_drones \in FleetSizes, num_sensors \in 0..MaxInitSensors :
        \E start \in DronePlacements(num_drones, num_sensors) :
            Construct(num_drones, num_sensors, start)

SpecConstruct == NotConstructed /\ [][NextConstruct]_vars

\* =========================================== TaskScheduler (batch optimizer)
\* A position list is a sequence of <<x, y, id>>; a partition maps the drone
\* indices 0..n-1 to sequences of sensors, as the dictionaries of the code do.
\* Distances are integers: the inputs drawn are those whose distances are
\* whole numbers, so that np.sqrt is exact.  collection_time and energy_cost
\* are carried multiplied by their divisors (TravelSpeed, EnergyDivisor).
SensorSpacing == 20
FieldOffset == 40
TravelSpeed == 10
CollectionBase == 2
EnergyDivisor == 10
EnergyBase == 5

\* The most sensors and drones of a topology handed to the nearest-centroid
\* mode, and the size and the generations of the genetic search.
MaxTopoSensors == 3
MaxTopoDrones == 2
population_size == 4
generations == 2

IsSquare(n) == ISqrt(n) * ISqrt(n) = n

\* (pos1[0] - pos2[0])**2 + (pos1[1] - pos2[1])**2
SquaredDistance(pos1, pos2) ==
    (pos1[1] - pos2[1]) * (pos1[1] - pos2[1])
        + (pos1[2] - pos2[2]) * (pos1[2] - pos2[2])

\* TaskScheduler.calculate_distance: np.sqrt of the squared distance.
TaskScheduler_calculate_distance(pos1, pos2) == ISqrt(SquaredDistance(pos1, pos2))

\* AgricultureTopology.create_topology: sensor i at
\* ((i % grid_size) * 20 - 40, (i // grid_size) * 20 - 40) with
\* grid_size = int(np.sqrt(num_sensors)) and the id of soil_sensor_i.
TopologySensors(num_sensors) ==
    [k \in 1..num_sensors |->
        <<((k - 1) % ISqrt(num_sensors)) * SensorSpacing - FieldOffset,
          ((k - 1) \div ISqrt(num_sensors)) * SensorSpacing - FieldOffset,
          k - 1>>]

\* (random.uniform(-60, 60), random.uniform(-60, 60)) for each drone; the
\* model draws from a few points in that square.
DronePoints ==
    {<<-40, -50>>, <<-40, -30>>, <<-40, -10>>, <<-40, 10>>, <<-25, -40>>,
     <<-25, -20>>}

\* The drone position lists of num_drones drones: drone i carries the id of
\* drone_i.
TopologyDrones(num_drones) ==
    {[k \in 1..num_drones |-> <<q[k][1], q[k][2], k - 1>>] :
        q \in [1..num_drones -> DronePoints]}

\* Every distance of the input is a whole number.
WholeDistances(dp, sp) ==
    \A i \in 1..Len(dp), k \in 1..Len(sp) : IsSquare(SquaredDistance(dp[i], sp[k]))

\* centroids = [(pos[0], pos[1]) for pos in drone_positions]
Centroids(dp) == [i \in 1..Len(dp) |-> <<dp[i][1], dp[i][2]>>]

\* {i: [] for i in range(n)}
EmptyAssignment(n) == [i \in 0..(n - 1) |-> <<>>]

\* The highest index of the minimum instead of the lowest.
IndexOfMin_Last(distances) ==
    (CHOOSE i \in 1..Len(distances) :
        /\ \A j \in 1..Len(distances) : distances[i] <= distances[j]
        /\ \A j \in (i + 1)..Len(distances) : distances[j] > distances[i]) - 1

\* distances.index(min(distances)) for a non-empty list: the lowest index
\* (from 0) that holds the minimum.
IndexOfMin(distances) ==
    (CHOOSE i \in 1..Len(distances) :
        /\ \A j \in 1..Len(distances) : distances[i] <= distances[j]
        /\ \A j \in 1..(i - 1) : distances[j] > distances[i]) - 1

\* A sensor entered in the nearest drone's list and in the next one's too.
AppendSensor_Twice(asg, drone_idx, sensor) ==
    [i \in DOMAIN asg |->
        IF i = drone_idx \/ i = drone_idx + 1 THEN Append(asg[i], sensor)
        ELSE asg[i]]

\* assignments[drone_idx].append(sensor)
AppendSensor(asg, drone_idx, sensor) ==
    [asg EXCEPT ![drone_idx] = Append(@, sensor)]

\* for sensor in sensor_positions (from the k-th on): the partition built and
\* the exception raised; min of an empty list raises ValueError.
RECURSIVE AssignNearest(_, _, _, _)
AssignNearest(k, centroids, sp, asg) ==
    IF k > Len(sp) THEN [assignments |-> asg, raised |-> NoError]
    ELSE LET sensor == sp[k]
             distances == [i \in 1..Len(centroids) |->
                            TaskScheduler_calculate_distance(centroids[i], sensor)]
         IN  IF distances = <<>>
             THEN [assignments |-> asg, raised |-> "ValueError"]
             ELSE AssignNearest(k + 1, centroids, sp,
                        AppendSensor(asg, IndexOfMin(distances), sensor))

\* k_means_clustering_assignment(drone_positions, sensor_positions)
k_means_clustering_assignment(dp, sp) ==
    AssignNearest(1, Centroids(dp), sp, EmptyAssignment(Len(dp)))

\* collection_time with the fixed part left out.
CollectionTime_TravelOnly(distance) == distance

\* distance / 10 + 2, times TravelSpeed
CollectionTime(distance) == distance + CollectionBase * TravelSpeed

\* distance * 0.1 + 5, times EnergyDivisor
EnergyCost(distance) == distance + EnergyBase * EnergyDivisor

\* The dictionary appended to schedule for a sensor of drone drone_idx.
ScheduleEntry(dp, drone_idx, sensor) ==
    LET distance == TaskScheduler_calculate_distance(dp[drone_idx + 1], sensor)
    IN  [drone_id |-> drone_idx,
         sensor_id |-> sensor[3],
         distance |-> distance,
         collection_time |-> CollectionTime(distance),
         energy_cost |-> EnergyCost(distance)]

\* for sensor in sensors: schedule.append({...})
DroneEntries(dp, drone_idx, sensors) ==
    [k \in 1..Len(sensors) |-> ScheduleEntry(dp, drone_idx, sensors[k])]

\* for drone_idx, sensors in assignments.items() (from drone_idx on)
RECURSIVE ScheduleFrom(_, _, _)
ScheduleFrom(dp, asg, drone_idx) ==
    IF drone_idx \notin DOMAIN asg THEN <<>>
    ELSE DroneEntries(dp, drone_idx, asg[drone_idx])
            \o ScheduleFrom(dp, asg, drone_idx + 1)

\* generate_schedule once the partition is there: (schedule, assignments).
BuildSchedule(dp, asg) ==
    [schedule |-> ScheduleFrom(dp, asg, 0), assignments |-> asg,
     raised |-> NoError]

\* generate_schedule(drone_positions, sensor_positions, "kmeans"): what it
\* returns, or the exception it lets through.
generate_schedule(dp, sp) ==
    LET r == k_means_clustering_assignment(dp, sp)
    IN  IF r.raised # NoError
        THEN [schedule |-> <<>>, assignments |-> <<>>, raised |-> r.raised]
        ELSE BuildSchedule(dp, r.assignments)

\* ---------------------------------------- genetic_algorithm_optimization
\* range(len(drone_positions)): what random.randint(0, len - 1) can return.
DroneIndices(dp) == 0..(Len(dp) - 1)

\* assignment[random.randint(...)].append(sensor) for each sensor, draws
\* holding the numbers drawn.
RECURSIVE RandomAssignmentFrom(_, _, _, _)
RandomAssignmentFrom(k, draws, sp, asg) ==
    IF k > Len(sp) THEN asg
    ELSE RandomAssignmentFrom(k + 1, draws, sp, AppendSensor(asg, draws[k], sp[k]))

\* The candidates the initialization can produce.
InitialCandidates(dp, sp) ==
    {RandomAssignmentFrom(1, draws, sp, EmptyAssignment(Len(dp))) :
        draws \in [1..Len(sp) -> DroneIndices(dp)]}

RECURSIVE SumSeq(_)
SumSeq(q) == IF q = <<>> THEN 0 ELSE q[1] + SumSeq(Tail(q))

\* drone_distance: the sum of the distances from the drone to its sensors.
DroneDistance(dp, drone_idx, sensors) ==
    SumSeq([k \in 1..Len(sensors) |->
                TaskScheduler_calculate_distance(dp[drone_idx + 1], sensors[k])])

\* distances: one total per drone.
Distances(asg, dp) ==
    [i \in 1..Cardinality(DOMAIN asg) |-> DroneDistance(dp, i - 1, asg[i - 1])]

\* A fitness is the fraction num / den.  With n drones, total distance t and
\* the totals d_i:  np.var(distances) = (n * sum d_i^2 - t^2) / n^2, so
\* 1 / (t + var + 1) = n^2 / (n^2 * t + n * sum d_i^2 - t^2 + n^2).
\* Without drones distances is empty, load_variance stays 0 and fitness is 1.
fitness(asg, dp) ==
    LET distances == Distances(asg, dp)
        n == Len(distances)
        total_distance == SumSeq(distances)
        squares == SumSeq([i \in 1..n |-> distances[i] * distances[i]])
    IN  IF n = 0 THEN [num |-> 1, den |-> 1]
        ELSE [num |-> n * n,
              den |-> n * n * total_distance
                        + (n * squares - total_distance * total_distance)
                        + n * n]

FitnessGreater(f, g) == f.num * g.den > g.num * f.den

RemoveAt(q, i) == SubSeq(q, 1, i - 1) \o SubSeq(q, i + 1, Len(q))

\* fitness_scores = [(assignment, fitness(assignment)) for assignment in population]
FitnessScores(pop, dp) ==
    [i \in 1..Len(pop) |-> <<pop[i], fitness(pop[i], dp)>>]

\* fitness_scores.sort(key=lambda x: x[1], reverse=True): by fitness, the
\* highest first, candidates of equal fitness in the order they had.
RECURSIVE SortByFitness(_)
SortByFitness(fitness_scores) ==
    IF fitness_scores = <<>> THEN <<>>
    ELSE LET i == CHOOSE i \in 1..Len(fitness_scores) :
                    /\ \A j \in 1..Len(fitness_scores) :
                        ~FitnessGreater(fitness_scores[j][2], fitness_scores[i][2])
                    /\ \A j \in 1..(i - 1) :
                        FitnessGreater(fitness_scores[i][2], fitness_scores[j][2])
         IN  <<fitness_scores[i]>> \o SortByFitness(RemoveAt(fitness_scores, i))

\* The population ranked.
Ranked(pop, dp) == SortByFitness(FitnessScores(pop, dp))

\* The lower half kept instead of the upper.
Survivors_LowerHalf(fitness_scores) ==
    [i \in 1..(population_size \div 2) |->
        fitness_scores[Len(fitness_scores) - (population_size \div 2) + i][1]]

\* [assignment for assignment, _ in fitness_scores[:population_size // 2]]
Survivors(fitness_scores) ==
    [i \in 1..Min(population_size \div 2, Len(fitness_scores)) |->
        fitness_scores[i][1]]

\* The last of the ranking returned.
BestOf_Last(final_fitness) == final_fitness[Len(final_fitness)][1]

\* final_fitness[0][0]
BestOf(final_fitness) == final_fitness[1][1]

NotHeld == -1

\* for drone_idx, sensors in parent.items(): if sensor in sensors: ... break
\* the first drone whose list holds the sensor.
HolderOf(asg, sensor) ==
    IF \E i \in DOMAIN asg : sensor \in Range(asg[i])
    THEN CHOOSE i \in DOMAIN asg :
            /\ sensor \in Range(asg[i])
            /\ \A j \in DOMAIN asg : j < i => sensor \notin Range(asg[j])
    ELSE NotHeld

\* for sensor in sensor_positions (from the k-th on): the sensor goes to the
\* drone that holds it in parent1 when coins[k] (random.random() < 0.5),
\* else to the one that holds it in parent2.
RECURSIVE CrossoverFrom(_, _, _, _, _, _)
CrossoverFrom(k, parent1, parent2, coins, sp, c) ==
    IF k > Len(sp) THEN c
    ELSE LET parent == IF coins[k] THEN parent1 ELSE parent2
             drone_idx == HolderOf(parent, sp[k])
         IN  CrossoverFrom(k + 1, parent1, parent2, coins, sp,
                IF drone_idx = NotHeld THEN c
                ELSE AppendSensor(c, drone_idx, sp[k]))

\* sensors.remove(x): the first occurrence goes.
RemoveFirst(q, x) ==
    IF x \notin Range(q) THEN q
    ELSE RemoveAt(q, CHOOSE i \in 1..Len(q) :
                        q[i] = x /\ \A j \in 1..(i - 1) : q[j] # x)

\* A mutation that forgets to take the sensor from its drone.
Mutation_NoRemove(c, sensor_to_move, new_drone) ==
    AppendSensor(c, new_drone, sensor_to_move)

\* The mutation: sensor_to_move leaves the first drone that holds it and is
\* appended to new_drone's list.
Mutation(c, sensor_to_move, new_drone) ==
    LET drone_idx == HolderOf(c, sensor_to_move)
        removed == IF drone_idx = NotHeld THEN c
                   ELSE [c EXCEPT ![drone_idx] = RemoveFirst(@, sensor_to_move)]
    IN  AppendSensor(removed, new_drone, sensor_to_move)

\* ------------------------------------------------- the batch program
\* The inputs handed to the nearest-centroid mode: the topologies of up to
\* MaxTopoSensors sensors and MaxTopoDrones drones, empty ones included.
KMeansInputs ==
    {in \in UNION {TopologyDrones(n) \X {TopologySensors(m)} :
                        n \in 0..MaxTopoDrones, m \in 0..MaxTopoSensors} :
        WholeDistances(in[1], in[2])}

\* The inputs handed to the genetic mode: two drones and two sensors, and the
\* topologies without drones or without sensors.
GeneticDrones == {<<>>, <<<<-40, -30, 0>>, <<-40, 10, 1>>>>}
GeneticInputs == GeneticDrones \X {TopologySensors(0), TopologySensors(2)}

\* The YAFS program has no DroneTaskScheduler and no strategy.
StrategyAbsent ==
    /\ sensor_positions = <<>>
    /\ drone_positions = <<>>
    /\ drone_battery = <<>>
    /\ assigned_tasks = <<>>
    /\ activations = 0
    /\ data_collection_log = <<>>
    /\ drone_users = {}
    /\ edges = {}
    /\ call = NoCall
    /\ calls = 0
    /\ streams = IdleStreams

\* TaskScheduler.__init__, and the arguments generate_schedule is going to be
\* called with.
InitBatch(inputs, mode) ==
    /\ StrategyAbsent
    /\ \E in \in inputs :
        /\ topo_drone_positions = in[1]
        /\ topo_sensor_positions = in[2]
    /\ algorithm = mode
    /\ population = <<>>
    /\ survivors = <<>>
    /\ new_population = <<>>
    /\ child = <<>>
    /\ generation = 0
    /\ assignments = <<>>
    /\ schedule = <<>>
    /\ pc = "idle"
    /\ batch_raised = NoError

\* No call of generate_schedule is under way.
AtRest == pc \in {"idle", "done", "raised"}

\* generate_schedule(drone_positions, sensor_positions, "kmeans"), from call
\* to return; it can be called again.
GenerateScheduleKMeans ==
    /\ AtRest
    /\ algorithm = "kmeans"
    /\ LET r == generate_schedule(topo_drone_positions, topo_sensor_positions)
       IN  /\ assignments' = r.assignments
           /\ schedule' = r.schedule
           /\ batch_raised' = r.raised
           /\ pc' = IF r.raised = NoError THEN "done" ELSE "raised"
    /\ UNCHANGED <<strategy_vars, topo_drone_positions, topo_sensor_positions,
                   algorithm, population, survivors, new_population, child,
                   generation>>

\* generate_schedule(drone_positions, sensor_positions, "genetic") is called.
GenerateScheduleGenetic ==
    /\ pc = "idle"
    /\ algorithm = "genetic"
    /\ pc' = "initialize"
    /\ UNCHANGED <<strategy_vars, topo_drone_positions, topo_sensor_positions,
                   algorithm, population, survivors, new_population, child,
                   generation, assignments, schedule, batch_raised>>

\* The exception exc leaves generate_schedule.
Raise(exc) ==
    /\ batch_raised' = exc
    /\ pc' = "raised"

\* population = [random assignment for _ in range(population_size)];
\* random.randint(0, -1) raises ValueError when there is a sensor to place
\* and no drone.
InitializePopulation ==
    /\ pc = "initialize"
    /\ IF InitialCandidates(topo_drone_positions, topo_sensor_positions) = {}
       THEN /\ Raise("ValueError")
            /\ UNCHANGED population
       ELSE /\ population' \in
                [1..population_size ->
                    InitialCandidates(topo_drone_positions, topo_sensor_positions)]
            /\ pc' = "select"
            /\ UNCHANGED batch_raised
    /\ UNCHANGED <<strategy_vars, survivors, topo_drone_positions, topo_sensor_positions,
                   algorithm, new_population, child, generation, assignments,
                   schedule>>

\* The head of an iteration of  for generation in range(generations):
\* rank the population, new_population = survivors[:].
Select ==
    /\ pc = "select"
    /\ generation < generations
    /\ survivors' = Survivors(Ranked(population, topo_drone_positions))
    /\ new_population' = survivors'
    /\ pc' = "crossover"
    /\ UNCHANGED <<strategy_vars, topo_drone_positions, topo_sensor_positions,
                   algorithm, population, child, generation, assignments,
                   schedule, batch_raised>>

\* while len(new_population) < population_size: two random.choice(survivors)
\* and the crossover, coins[k] telling whether random.random() < 0.5 for the
\* k-th sensor.
Crossover(parent1, parent2, coins) ==
    /\ pc = "crossover"
    /\ Len(new_population) < population_size
    /\ child' = CrossoverFrom(1, parent1, parent2, coins, topo_sensor_positions,
                              EmptyAssignment(Len(topo_drone_positions)))
    /\ pc' = "mutate"
    /\ UNCHANGED <<strategy_vars, survivors, topo_drone_positions, topo_sensor_positions,
                   algorithm, population, new_population, generation,
                   assignments, schedule, batch_raised>>

\* random.random() >= mutation_rate: the child is appended as it is.
KeepChild ==
    /\ pc = "mutate"
    /\ new_population' = Append(new_population, child)
    /\ pc' = "crossover"
    /\ UNCHANGED <<strategy_vars, survivors, topo_drone_positions, topo_sensor_positions,
                   algorithm, population, child, generation, assignments,
                   schedule, batch_raised>>

\* random.random() < mutation_rate: the child is mutated and appended;
\* random.choice of an empty sensor list raises IndexError.
Mutate ==
    /\ pc = "mutate"
    /\ IF topo_sensor_positions = <<>>
       THEN /\ Raise("IndexError")
            /\ UNCHANGED <<child, new_population>>
       ELSE /\ \E sensor_to_move \in Range(topo_sensor_positions),
                  new_drone \in DroneIndices(topo_drone_positions) :
                    child' = Mutation(child, sensor_to_move, new_drone)
            /\ new_population' = Append(new_population, child')
            /\ pc' = "crossover"
            /\ UNCHANGED batch_raised
    /\ UNCHANGED <<strategy_vars, survivors, topo_drone_positions, topo_sensor_positions,
                   algorithm, population, generation, assignments, schedule>>

\* The while loop is left: population = new_population, the next generation.
Replace ==
    /\ pc = "crossover"
    /\ Len(new_population) >= population_size
    /\ population' = new_population
    /\ generation' = generation + 1
    /\ pc' = "select"
    /\ UNCHANGED <<strategy_vars, survivors, topo_drone_positions, topo_sensor_positions,
                   algorithm, new_population, child, assignments, schedule,
                   batch_raised>>

\* The for loop is left: the best of the final ranking is returned and
\* generate_schedule builds the schedule from it.
Return ==
    /\ pc = "select"
    /\ generation >= generations
    /\ LET r == BuildSchedule(topo_drone_positions,
                    BestOf(Ranked(population, topo_drone_positions)))
       IN  /\ assignments' = r.assignments
           /\ schedule' = r.schedule
    /\ pc' = "done"
    /\ UNCHANGED <<strategy_vars, survivors, topo_drone_positions, topo_sensor_positions,
                   algorithm, population, new_population, child, generation,
                   batch_raised>>

InitKMeans == InitBatch(KMeansInputs, "kmeans")

NextKMeans == GenerateScheduleKMeans

SpecKMeans == InitKMeans /\ [][NextKMeans]_vars

InitGenetic == InitBatch(GeneticInputs, "genetic")

NextGenetic ==
    \/ GenerateScheduleGenetic
    \/ InitializePopulation
    \/ Select
    \/ \E parent1, parent2 \in Range(survivors),
          coins \in [1..Len(topo_sensor_positions) -> BOOLEAN] :
            Crossover(parent1, parent2, coins)
    \/ KeepChild
    \/ Mutate
    \/ Replace
    \/ Return

SpecGenetic == InitGenetic /\ [][NextGenetic]_vars

\* ============================================================ claims
Last(seq) == seq[Len(seq)]

RECURSIVE SumOver(_, _)
SumOver(f, S) ==
    IF S = {} THEN 0
    ELSE LET x == CHOOSE y \in S : TRUE IN f[x] + SumOver(f, S \ {x})

\* The number of task records held over all drones.
TotalTasks(tasks) == SumOver([d \in DOMAIN tasks |-> Len(tasks[d])], DOMAIN tasks)

\* This step is a direct schedule_task call that returned a drone.
Assigned == call'.op = "schedule_task" /\ call'.ret # None

\* C1: in every reachable state every drone's battery is within [0, 100].
C1_BatteryInRange ==
    \A d \in DOMAIN drone_battery :
        0 <= drone_battery[d] /\ drone_battery[d] <= FullBattery

\* A drone that has served tasks since construction was recharged and is at
\* 100: the recharge was clamped.
C1_Witness ==
    /\ call.op = "recharge_drone"
    /\ call.arg \in DOMAIN drone_battery
    /\ drone_battery[call.arg] = FullBattery
    /\ assigned_tasks[call.arg] # <<>>
    /\ Len(assigned_tasks[call.arg]) <= MaxCalls + TasksPerActivation

\* C2: a direct schedule_task call that returns a drone returns one whose
\* battery immediately before the call was strictly greater than 20.
C2_NeverSelectsLowBattery ==
    [][Assigned => drone_battery[call'.ret] > MinBattery]_vars

\* A drone was returned although another one, at the threshold, is parked on
\* the very sensor asked for.
C2_Witness ==
    /\ call.op = "schedule_task"
    /\ call.ret # None
    /\ \E d \in DOMAIN drone_battery :
        /\ d # call.ret
        /\ drone_battery[d] <= MinBattery
        /\ drone_positions[d] = sensor_positions[call.arg]

\* sqrt(a) + p/2 <= sqrt(b) + q/2
SqrtSumLeq(a, p, b, q) == ~SqrtSumLess(b, q, a, p)

\* C3: for a known sensor the drone returned has minimal cost
\* distance + (100 - battery) * 0.5 among the drones with battery > 20, and
\* every eligible drone earlier in the registry's order costs strictly more;
\* with an eligible drone present a drone is returned.
C3_MinimalCostFirstWins ==
    [][(call'.op = "schedule_task" /\ call'.arg \in DOMAIN sensor_positions) =>
        LET sensor_pos == sensor_positions[call'.arg]
            eligible == {d \in DOMAIN drone_battery : drone_battery[d] > MinBattery}
            d2(d) == calculate_distance(drone_positions[d], sensor_pos)
            pen2(d) == FullBattery - drone_battery[d]
        IN  /\ (eligible # {}) <=> (call'.ret # None)
            /\ call'.ret # None =>
                /\ call'.ret \in eligible
                /\ \A d \in eligible :
                    /\ SqrtSumLeq(d2(call'.ret), pen2(call'.ret), d2(d), pen2(d))
                    /\ d < call'.ret =>
                        SqrtSumLess(d2(call'.ret), pen2(call'.ret), d2(d), pen2(d))
      ]_vars

\* The first drone was returned on a tie: another eligible drone had the same
\* distance (the one recorded) and the same battery before the call.
C3_Witness ==
    /\ call.op = "schedule_task"
    /\ call.ret # None
    /\ \E d \in DOMAIN drone_battery :
        /\ d > call.ret
        /\ drone_battery[d] = drone_battery[call.ret] + TaskDrain
        /\ calculate_distance(drone_positions[d], sensor_positions[call.arg])
                = Last(assigned_tasks[call.ret]).distance
        /\ Last(assigned_tasks[call.ret]).distance > 0

\* C4: after a successful schedule_task(sensor_id, t) the chosen drone is at
\* the sensor's position and its history is the one before with exactly one
\* record (sensor_id, t, distance from its position before the call to the
\* sensor) appended.
C4_MovesAndRecords ==
    [][Assigned =>
        /\ drone_positions'[call'.ret] = sensor_positions[call'.arg]
        /\ assigned_tasks'[call'.ret] =
            Append(assigned_tasks[call'.ret],
                   [sensor |-> call'.arg,
                    time |-> call'.time,
                    distance |->
                        calculate_distance(drone_positions[call'.ret],
                                           sensor_positions[call'.arg])])
      ]_vars

\* A drone travelled a non-zero distance to its second task, scheduled at time 1.
C4_Witness ==
    /\ call.op = "schedule_task"
    /\ call.ret # None
    /\ call.time = 1
    /\ Len(assigned_tasks[call.ret]) >= 2
    /\ Last(assigned_tasks[call.ret]).distance > 0
    /\ drone_positions[call.ret] = sensor_positions[call.arg]

\* C5: on a successful schedule_task the chosen drone's battery decreases by
\* exactly min(5, battery before the call) and does not become negative.
C5_DrainsMinFive ==
    [][Assigned =>
        /\ drone_battery'[call'.ret] =
            drone_battery[call'.ret] - Min(TaskDrain, drone_battery[call'.ret])
        /\ drone_battery'[call'.ret] >= 0
      ]_vars

\* The last task a drone can take: it is left at the threshold.
C5_Witness ==
    /\ call.op = "schedule_task"
    /\ call.ret # None
    /\ drone_battery[call.ret] = MinBattery
\* C6: each drone's position is that of the sensor of the last record of its
\* history, and while its history is empty it keeps the position it was
\* constructed with.
C6_PositionIsLastSensor ==
    [][\A d \in DOMAIN drone_positions' :
        IF assigned_tasks'[d] = <<>>
        THEN drone_positions'[d] = drone_positions[d]
        ELSE drone_positions'[d] =
                sensor_positions'[Last(assigned_tasks'[d]).sensor]
      ]_vars

\* After a recharge: one drone has never been assigned a task and is off the
\* sensors, another has been sent to two different sensors.
C6_Witness ==
    /\ call.op = "recharge_drone"
    /\ \E d, e \in DOMAIN drone_positions :
        /\ assigned_tasks[d] = <<>>
        /\ drone_positions[d] \notin Range(sensor_positions)
        /\ Len(assigned_tasks[e]) >= 2
        /\ assigned_tasks[e][1].sensor # assigned_tasks[e][2].sensor

IsPrefix(a, b) == Len(a) <= Len(b) /\ SubSeq(b, 1, Len(a)) = a

\* C7: every step leaves each history a prefix of the history afterwards;
\* a direct schedule_task call adds exactly one record over all drones when
\* it returns a drone and none when it returns no assignment; recharging and
\* deploying add none.
C7_AppendOnlyOnePerAssignment ==
    [][/\ \A d \in DOMAIN assigned_tasks :
            IsPrefix(assigned_tasks[d], assigned_tasks'[d])
       /\ call'.op = "schedule_task" =>
            TotalTasks(assigned_tasks') =
                TotalTasks(assigned_tasks) + (IF call'.ret # None THEN 1 ELSE 0)
       /\ call'.op \in {"recharge_drone", "deploy_drone_user"} =>
            assigned_tasks' = assigned_tasks
      ]_vars

\* A request for a known sensor returned no assignment with records present,
\* a drone holding several.
C7_Witness ==
    /\ call.op = "schedule_task"
    /\ call.arg \in DOMAIN sensor_positions
    /\ call.ret = None
    /\ \E d \in DOMAIN assigned_tasks : Len(assigned_tasks[d]) >= 2

\* C8: schedule_task with an unknown sensor id returns no assignment, raises
\* nothing and leaves positions, batteries and histories unchanged.
C8_UnknownSensorNoOp ==
    [][(call'.op = "schedule_task" /\ call'.arg \notin DOMAIN sensor_positions) =>
        /\ call'.ret = None
        /\ call'.raised = NoError
        /\ drone_positions' = drone_positions
        /\ drone_battery' = drone_battery
        /\ assigned_tasks' = assigned_tasks
      ]_vars

\* The unknown sensor was asked for with eligible drones and records present.
C8_Witness ==
    /\ call.op = "schedule_task"
    /\ call.arg \notin DOMAIN sensor_positions
    /\ \E d \in DOMAIN drone_battery : drone_battery[d] > MinBattery
    /\ TotalTasks(assigned_tasks) > 0

\* C9: with every drone at battery <= 20, schedule_task for a known sensor
\* returns no assignment, raises nothing and leaves positions, batteries and
\* histories unchanged.
C9_NoEligibleDroneNoOp ==
    [][(/\ call'.op = "schedule_task"
        /\ call'.arg \in DOMAIN sensor_positions
        /\ \A d \in DOMAIN drone_battery : drone_battery[d] <= MinBattery) =>
        /\ call'.ret = None
        /\ call'.raised = NoError
        /\ drone_positions' = drone_positions
        /\ drone_battery' = drone_battery
        /\ assigned_tasks' = assigned_tasks
      ]_vars

\* A known sensor was asked for with the whole fleet at or below the threshold.
C9_Witness ==
    /\ call.op = "schedule_task"
    /\ call.arg \in DOMAIN sensor_positions
    /\ call.ret = None
    /\ \A d \in DOMAIN drone_battery : drone_battery[d] <= MinBattery

\* This step is a recharge of a known drone directly after a recharge of it.
RechargedAgain ==
    /\ call.op = "recharge_drone"
    /\ call'.op = "recharge_drone"
    /\ call'.arg = call.arg
    /\ call.arg \in DOMAIN drone_battery

\* C10 as stated: recharging a known drone a second time in a row leaves the
\* battery the first recharge left.
C10_RechargeIdempotent ==
    [][RechargedAgain => drone_battery' = drone_battery]_vars

\* C10 as amended: a second recharge in a row raises the battery by a further
\* 20, clamped to 100; it leaves the battery of the first exactly when that
\* one had brought it to 100.
C10_SecondRechargeAddsAgain ==
    [][RechargedAgain =>
        /\ drone_battery'[call'.arg] =
            Min(FullBattery, drone_battery[call'.arg] + RechargeStep)
        /\ (drone_battery'[call'.arg] = drone_battery[call'.arg])
            <=> (drone_battery[call'.arg] = FullBattery)
      ]_vars

\* A worn drone two recharges later, nothing else having touched it: the
\* second recharge added 20 to what the first had left.
C10_Witness ==
    /\ call.op = "recharge_drone"
    /\ call.arg \in DOMAIN drone_battery
    /\ activations = 0
    /\ calls = 2
    /\ drone_battery[call.arg] = MinBattery + 2 * RechargeStep

\* The battery dictionary after n calls recharge_drone(drone_id) in a row.
RECURSIVE RechargeRun(_, _, _)
RechargeRun(bat, drone_id, n) ==
    IF n = 0 THEN bat ELSE RechargeRun(recharge_drone(bat, drone_id), drone_id, n - 1)

\* The calls it takes at most to fill a battery: from 0 by steps of 20.
FillCalls == FullBattery \div RechargeStep

\* The battery of a drone at level b after n calls recharge_drone in a row.
LevelAfter(b, n) ==
    RechargeRun([x \in {DroneBase} |-> b], DroneBase, n)[DroneBase]

\* From any level in 0..100 recharges in a row never lower the battery, have
\* it at exactly 100 after 5 calls and leave it there.
FillsFromAnyLevel ==
    \A b \in 0..FullBattery :
        /\ LevelAfter(b, FillCalls) = FullBattery
        /\ LevelAfter(b, FillCalls + 1) = FullBattery
        /\ \A n \in 0..(FillCalls - 1) : LevelAfter(b, n) <= LevelAfter(b, n + 1)

\* C11: a direct recharge of a known drone sets its battery to
\* min(100, battery + 20), never above 100 and never below what it was; from
\* the batteries it leaves, and from any level in 0..100, further recharges
\* in a row never lower the battery, bring it to exactly 100 within 5 calls
\* and leave it at 100 from then on.
C11_RechargeConvergesToFull ==
    [][(call'.op = "recharge_drone" /\ call'.arg \in DOMAIN drone_battery) =>
        LET d == call'.arg
        IN  /\ drone_battery'[d] = Min(FullBattery, drone_battery[d] + RechargeStep)
            /\ drone_battery'[d] <= FullBattery
            /\ drone_battery'[d] >= drone_battery[d]
            /\ \A e \in DOMAIN drone_battery \ {d} :
                    drone_battery'[e] = drone_battery[e]
            /\ \A n \in 0..FillCalls :
                    /\ RechargeRun(drone_battery', d, n)[d]
                            <= RechargeRun(drone_battery', d, n + 1)[d]
                    /\ RechargeRun(drone_battery', d, n + 1)[d] <= FullBattery
            /\ RechargeRun(drone_battery', d, FillCalls)[d] = FullBattery
            /\ RechargeRun(drone_battery', d, FillCalls + 1)[d] = FullBattery
            /\ FillsFromAnyLevel
      ]_vars

\* A worn drone three recharges later, still short of 100: each of them
\* raised the battery by 20.
C11_Witness ==
    /\ call.op = "recharge_drone"
    /\ call.arg \in DOMAIN drone_battery
    /\ assigned_tasks[call.arg] # <<>>
    /\ drone_battery[call.arg] = MinBattery + TaskDrain + 3 * RechargeStep

\* This step is a direct recharge_drone call with an id not in the registry.
RechargedUnknown ==
    call'.op = "recharge_drone" /\ call'.arg \notin DOMAIN drone_battery

\* C12 as stated: a recharge of a drone id that is not in the registry is
\* surfaced to the caller as a failure.
C12_UnknownDroneIsSurfaced ==
    [][RechargedUnknown => call'.raised # NoError]_vars

\* What recharge_drone does with such an id: it raises nothing and leaves the
\* registry as it was, no entry added for the id.
C12_UnknownDroneIsIgnored ==
    [][RechargedUnknown =>
        /\ call'.raised = NoError
        /\ drone_battery' = drone_battery
        /\ call'.arg \notin DOMAIN drone_battery'
        /\ drone_positions' = drone_positions
        /\ assigned_tasks' = assigned_tasks
      ]_vars

\* An unknown drone was recharged while a drone of the registry was short of
\* a full battery.
C12_Witness ==
    /\ call.op = "recharge_drone"
    /\ call.arg \notin DOMAIN drone_battery
    /\ \E d \in DOMAIN drone_battery : drone_battery[d] < FullBattery

Count(q, x) == Cardinality({k \in 1..Len(q) : q[k] = x})

\* The number of times the sensor occurs over all the lists of a partition.
Occurrences(asg, sensor) ==
    SumOver([i \in DOMAIN asg |-> Count(asg[i], sensor)], DOMAIN asg)

\* The partition has a list for each of the n drones, holds every sensor of
\* sp exactly once and holds nothing else.
CoversExactly(asg, n, sp) ==
    /\ DOMAIN asg = 0..(n - 1)
    /\ \A k \in 1..Len(sp) : Occurrences(asg, sp[k]) = 1
    /\ \A i \in DOMAIN asg : Range(asg[i]) \subseteq Range(sp)

\* generate_schedule has returned in the nearest-centroid mode.
KMeansReturned == algorithm = "kmeans" /\ pc = "done"

\* C13: the partition the nearest-centroid mode returns has one list per
\* drone, holds every input sensor in exactly one list, once, and holds
\* nothing that is not an input sensor.
C13_KMeansCoversExactly ==
    KMeansReturned =>
        CoversExactly(assignments, Len(topo_drone_positions), topo_sensor_positions)

\* Three sensors were shared out over two drones, each drone getting some.
C13_Witness ==
    /\ KMeansReturned
    /\ Len(topo_sensor_positions) = 3
    /\ Len(topo_drone_positions) = 2
    /\ \A i \in DOMAIN assignments : assignments[i] # <<>>

\* C14: every sensor is in the list of a drone at minimal Euclidean distance
\* from it, every drone of a lower index being strictly farther; a single
\* drone gets all the sensors in their order; a call repeated on the same
\* positions returns the same partition and the same schedule.
C14_NearestLowestIndex ==
    [][(algorithm = "kmeans" /\ pc' = "done") =>
        /\ \A i \in DOMAIN assignments' :
            \A k \in 1..Len(assignments'[i]) :
                LET sensor == assignments'[i][k]
                    d2(j) == SquaredDistance(topo_drone_positions[j + 1], sensor)
                IN  /\ \A j \in DOMAIN assignments' : d2(i) <= d2(j)
                    /\ \A j \in DOMAIN assignments' : j < i => d2(j) > d2(i)
        /\ Len(topo_drone_positions) = 1 => assignments'[0] = topo_sensor_positions
        /\ pc = "done" => (assignments' = assignments /\ schedule' = schedule)
      ]_vars

\* A sensor went to the first of two drones that stand at different points
\* at the same distance from it.
C14_Witness ==
    /\ KMeansReturned
    /\ \E i, j \in DOMAIN assignments :
        /\ i < j
        /\ topo_drone_positions[i + 1][2] # topo_drone_positions[j + 1][2]
        /\ \E k \in 1..Len(assignments[i]) :
            SquaredDistance(topo_drone_positions[i + 1], assignments[i][k])
                = SquaredDistance(topo_drone_positions[j + 1], assignments[i][k])

\* C18 as stated: a call of the batch optimizer with an empty drone list or
\* an empty sensor list does not return, it ends with an exception.
C18_EmptyInputFailsFast ==
    (/\ pc \in {"done", "raised"}
     /\ (topo_drone_positions = <<>> \/ topo_sensor_positions = <<>>))
        => pc = "raised"

\* The nearest-centroid mode returned for drones and no sensors: a partition
\* of empty lists and an empty schedule.
C18_Witness ==
    /\ KMeansReturned
    /\ topo_sensor_positions = <<>>
    /\ topo_drone_positions # <<>>
    /\ \A i \in DOMAIN assignments : assignments[i] = <<>>
    /\ schedule = <<>>
    /\ batch_raised = NoError

\* The entries of the schedule for the sensor of that id served by the drone
\* of that index.
EntriesFor(drone_idx, sensor) ==
    {k \in 1..Len(schedule) :
        schedule[k].drone_id = drone_idx /\ schedule[k].sensor_id = sensor[3]}

\* C19: the schedule returned has exactly one entry for each sensor of each
\* drone's list and no other entry, hence as many entries as there are input
\* sensors; an entry's distance is the Euclidean distance from the drone's
\* position to the sensor, its collection_time is distance / 10 + 2 and its
\* energy_cost is distance * 0.1 + 5.
C19_OneEntryPerPair ==
    KMeansReturned =>
        /\ Len(schedule) = Len(topo_sensor_positions)
        /\ \A i \in DOMAIN assignments :
            \A k \in 1..Len(assignments[i]) :
                Cardinality(EntriesFor(i, assignments[i][k])) = 1
        /\ \A k \in 1..Len(schedule) :
            LET e == schedule[k]
            IN  /\ e.drone_id \in DOMAIN assignments
                /\ \E sensor \in Range(assignments[e.drone_id]) :
                    /\ sensor[3] = e.sensor_id
                    /\ e.distance >= 0
                    /\ e.distance * e.distance =
                        SquaredDistance(topo_drone_positions[e.drone_id + 1], sensor)
                /\ e.collection_time = e.distance + CollectionBase * TravelSpeed
                /\ e.energy_cost = e.distance + EnergyBase * EnergyDivisor

\* A schedule of three entries over two drones, one of them for a sensor at a
\* distance other than 0.
C19_Witness ==
    /\ KMeansReturned
    /\ Len(schedule) = 3
    /\ \E j, k \in 1..Len(schedule) :
        /\ schedule[j].drone_id # schedule[k].drone_id
        /\ schedule[k].distance > 0
        /\ schedule[k].collection_time > CollectionBase * TravelSpeed

\* The candidate covers the input sensors exactly.
Covers(c) ==
    CoversExactly(c, Len(topo_drone_positions), topo_sensor_positions)

\* C15: in the genetic mode every candidate of the population, of the
\* survivors and of the population being refilled (the mutated children in
\* it) covers every input sensor exactly once, and so do the child that a
\* crossover has just produced and the partition returned.
C15_GeneticCoversExactly ==
    algorithm = "genetic" =>
        /\ \A c \in Range(population) \cup Range(survivors) \cup Range(new_population) :
                Covers(c)
        /\ pc = "mutate" => Covers(child)
        /\ pc = "done" => Covers(assignments)

\* A generation has been refilled and its last child holds its sensors in
\* the reverse of the input order: a mutation moved the first sensor behind
\* the second.
C15_Witness ==
    /\ algorithm = "genetic"
    /\ pc = "crossover"
    /\ Len(topo_sensor_positions) = 2
    /\ Len(new_population) = population_size
    /\ child = Last(new_population)
    /\ \E i \in DOMAIN child :
        child[i] = <<topo_sensor_positions[2], topo_sensor_positions[1]>>

\* The fitness f is reached or exceeded in the population pop.
ReachedIn(f, pop) ==
    \E i \in 1..Len(pop) :
        ~FitnessGreater(f, fitness(pop[i], topo_drone_positions))

\* C16: when a generation replaces the population, the new population begins
\* with the survivors as they were, and every fitness present before is
\* reached or exceeded in it: the best fitness does not decrease.
C16_BestFitnessNeverDecreases ==
    [][(algorithm = "genetic" /\ population # <<>> /\ population' # population) =>
        /\ generation' = generation + 1
        /\ IsPrefix(survivors, population')
        /\ \A i \in 1..Len(population) :
            ReachedIn(fitness(population[i], topo_drone_positions), population')
      ]_vars

\* After the first generation a child is strictly fitter than every
\* survivor: the best fitness rose.
C16_Witness ==
    /\ algorithm = "genetic"
    /\ pc = "select"
    /\ generation = 1
    /\ \E i \in (Len(survivors) + 1)..Len(population) :
        \A j \in 1..Len(survivors) :
            FitnessGreater(fitness(population[i], topo_drone_positions),
                           fitness(population[j], topo_drone_positions))

\* An upper bound on the steps the search has still to take.
StepsLeft ==
    LET perGeneration == 2 * population_size + 2
        ahead == (generations - generation) * perGeneration
    IN  CASE pc = "idle" -> ahead + perGeneration + 2
          [] pc = "initialize" -> ahead + perGeneration + 1
          [] pc = "select" -> ahead + perGeneration
          [] pc = "crossover" -> ahead + 2 * (population_size - Len(new_population)) + 1
          [] pc = "mutate" -> ahead + 2 * (population_size - Len(new_population))
          [] OTHER -> 0

\* C17: the search ends after a bounded number of steps: every step lowers
\* StepsLeft, which is never negative, and a search that has not returned or
\* raised is never stuck (in the refill loop there are survivors to choose
\* the parents from); with drones and sensors present the search raises
\* nothing.  The population is refilled to exactly population_size
\* in each generation; the search returns only after exactly the fixed
\* number of generations, and what it returns is a candidate of the final
\* population that none of them exceeds in fitness.
C17_TerminatesWithBest ==
    [][/\ StepsLeft' < StepsLeft
       /\ StepsLeft' >= 0
       /\ pc' \in {"initialize", "select", "crossover", "mutate", "done", "raised"}
       /\ (pc' = "crossover" /\ Len(new_population') < population_size) =>
            survivors' # <<>>
       /\ (topo_drone_positions # <<>> /\ topo_sensor_positions # <<>>) =>
            pc' # "raised"
       /\ generation' # generation =>
            /\ generation' = generation + 1
            /\ generation' <= generations
            /\ Len(population') = population_size
       /\ Len(new_population') <= population_size
       /\ pc' = "done" =>
            /\ generation = generations
            /\ \E i \in 1..Len(population) : assignments' = population[i]
            /\ \A i \in 1..Len(population) :
                ~FitnessGreater(fitness(population[i], topo_drone_positions),
                                fitness(assignments', topo_drone_positions))
      ]_vars

\* The search returned after the last generation with a final population
\* that holds a candidate strictly less fit than the one returned.
C17_Witness ==
    /\ algorithm = "genetic"
    /\ pc = "done"
    /\ generation = generations
    /\ Len(population) = population_size
    /\ \E i \in 1..Len(population) :
        FitnessGreater(fitness(assignments, topo_drone_positions),
                       fitness(population[i], topo_drone_positions))

\* ------------------------------------------------------------ C21
\* The positions of an activation's calls that returned a drone, in order.
Successes(returned) ==
    SelectSeq([i \in 1..Len(returned) |-> i], LAMBDA i : returned[i] # None)

\* The entries the step appended to the data collection log.
NewEntries ==
    SubSeq(data_collection_log', Len(data_collection_log) + 1,
           Len(data_collection_log'))

\* C21: in the orchestrator's loop every activation appends to the log one
\* entry per schedule_task call that returned a drone, in call order, naming
\* that drone and that sensor and carrying the battery the drone had right
\* after that assignment; the edge between the two exists afterwards; the log
\* holds as many entries as there are task records before and after; and no
\* edge is ever removed.
C21_OneLogEntryPerAssignment ==
    [][/\ call'.op = "activate"
       /\ edges \subseteq edges'
       /\ Len(data_collection_log) = TotalTasks(assigned_tasks)
       /\ Len(data_collection_log') = TotalTasks(assigned_tasks')
       /\ IsPrefix(data_collection_log, data_collection_log')
       /\ LET succ == Successes(call'.returned)
          IN  /\ Len(NewEntries) = Len(succ)
              /\ \A j \in 1..Len(succ) :
                    LET e == NewEntries[j]
                        served == Cardinality({k \in 1..j :
                                    NewEntries[k].drone_id = e.drone_id})
                    IN  /\ e.drone_id = call'.returned[succ[j]]
                        /\ e.sensor_id = call'.arg[succ[j]]
                        /\ e.time = call'.time
                        /\ e.battery =
                              drone_battery[e.drone_id] - TaskDrain * served
                        /\ Edge(e.drone_id, e.sensor_id) \in edges'
      ]_vars

\* An activation made three schedule_task calls of which the last returned
\* no drone: two entries were logged, and an edge that the topology did not
\* start with is there.
C21_Witness ==
    /\ call.op = "activate"
    /\ Len(call.returned) = TasksPerActivation
    /\ call.returned[1] # None
    /\ call.returned[TasksPerActivation] = None
    /\ Len(data_collection_log) = TotalTasks(assigned_tasks)
    /\ \E e \in edges :
        e \notin create_precision_agriculture_topology(LoopDrones, FieldSensors)

\* ------------------------------------------------------------ C22
\* The battery the drone has after the scheduling step of the activation this
\* step performs: its battery before, less one drain per task record added.
AfterScheduling(d) ==
    drone_battery[d]
        - TaskDrain * (Len(assigned_tasks'[d]) - Len(assigned_tasks[d]))

\* C22: an activation, odd or even, leaves every drone whose battery is below
\* 30 after the scheduling step with that battery raised once by 20 (capped
\* at 100) and with an edge to MEC node 1, and leaves every other drone with
\* the battery it had after the scheduling step.
C22_LowDronesRechargedOnce ==
    [][call'.op = "activate" =>
        \A d \in DOMAIN drone_battery :
            IF AfterScheduling(d) < LowBattery
            THEN /\ drone_battery'[d] =
                        Min(FullBattery, AfterScheduling(d) + RechargeStep)
                 /\ Edge(d, MecNode) \in edges'
            ELSE drone_battery'[d] = AfterScheduling(d)
      ]_vars

\* A scheduling activation has just logged a drone at 25, below 30 and above
\* the operating threshold, and that drone now stands at 45.
C22_Witness ==
    /\ call.op = "activate"
    /\ activations % 2 = 0
    /\ data_collection_log # <<>>
    /\ LET e == Last(data_collection_log)
       IN  /\ e.time = call.time
           /\ e.battery = MinBattery + TaskDrain
           /\ drone_battery[e.drone_id] = e.battery + RechargeStep

\* ------------------------------------------------------------ C23
\* C23: a direct recharge_drone call changes nothing but the named drone's
\* battery: every position, every history, every other battery, the sensors,
\* the log, the edges and the deployed users stay; and an activation that
\* schedules nothing leaves every position and history, and the battery of
\* every drone that is not below 30.
C23_RechargeTouchesOnlyBattery ==
    [][/\ call'.op = "recharge_drone" =>
            /\ drone_positions' = drone_positions
            /\ assigned_tasks' = assigned_tasks
            /\ \A d \in DOMAIN drone_battery :
                    d # call'.arg => drone_battery'[d] = drone_battery[d]
            /\ DOMAIN drone_battery' = DOMAIN drone_battery
            /\ sensor_positions' = sensor_positions
            /\ data_collection_log' = data_collection_log
            /\ edges' = edges
            /\ drone_users' = drone_users
       /\ (call'.op = "activate" /\ activations' % 2 = 1) =>
            /\ drone_positions' = drone_positions
            /\ assigned_tasks' = assigned_tasks
            /\ \A d \in DOMAIN drone_battery :
                    drone_battery[d] >= LowBattery =>
                        drone_battery'[d] = drone_battery[d]
      ]_vars

\* The last call recharged a worn drone directly, to 40 or 45, while another
\* drone with a history stands below 30 and has not moved from the last
\* sensor it served.
C23_Witness ==
    /\ call.op = "recharge_drone"
    /\ call.arg \in DOMAIN drone_battery
    /\ drone_battery[call.arg] \in
            {MinBattery + RechargeStep, MinBattery + TaskDrain + RechargeStep}
    /\ \E d \in DOMAIN drone_battery :
        /\ d # call.arg
        /\ drone_battery[d] < LowBattery
        /\ assigned_tasks[d] # <<>>
        /\ drone_positions[d] = sensor_positions[Last(assigned_tasks[d]).sensor]

\* ------------------------------------------------------------ C24
\* The activation counts the loop passes through.
TickRange == 0..(WarmUp(Deployed, 0).acts + MaxTicks)

\* At least two more activations will be observed, so a scheduling
\* activation is still to come.
SchedulingAhead ==
    \E w \in LoopStarts :
        activations >= w.acts /\ activations + 2 <= w.acts + MaxTicks

\* The last activation made a schedule_task call that returned no drone.
NoAssignmentSeen ==
    /\ call.op = "activate"
    /\ \E i \in 1..Len(call.returned) : call.returned[i] = None

\* The last activation made a schedule_task call that returned a drone.
AssignmentSeen ==
    /\ call.op = "activate"
    /\ \E i \in 1..Len(call.returned) : call.returned[i] # None

\* C24: in the loop over a fleet and a field that are not empty, an activation
\* in which schedule_task returned no assignment is followed by a later
\* activation in which schedule_task returns a drone, and from every point of
\* the run with a scheduling activation still ahead a later activation
\* assigns a task.
C24_AssignmentsResume ==
    \A n \in TickRange :
        /\ (NoAssignmentSeen /\ SchedulingAhead /\ activations = n)
                ~> (AssignmentSeen /\ activations > n)
        /\ (SchedulingAhead /\ activations = n)
                ~> (AssignmentSeen /\ activations > n)

\* An activation assigned tasks after an earlier scheduling activation had
\* logged fewer entries than it made calls: one of its calls was refused.
C24_Witness ==
    /\ AssignmentSeen
    /\ call.time > 0
    /\ Last(data_collection_log).time = call.time
    /\ \E k \in 1..Len(data_collection_log) :
        /\ data_collection_log[k].time < call.time
        /\ Cardinality({j \in 1..Len(data_collection_log) :
                data_collection_log[j].time = data_collection_log[k].time})
             < num_tasks(sensor_positions)

\* ------------------------------------------------------------ C25
RECURSIVE CeilSqrtFrom(_, _)
CeilSqrtFrom(n, r) == IF r * r >= n THEN r ELSE CeilSqrtFrom(n, r + 1)

\* The least r with r * r >= n.
CeilSqrt(n) == CeilSqrtFrom(n, 0)

\* The greatest r with r * r <= n.
FloorSqrt(n) == CHOOSE r \in 0..n : r * r <= n /\ (r + 1) * (r + 1) > n

\* The scheduler was constructed for num_drones drones and num_sensors
\* sensors over a grid of cells cells per axis: sensor 100 + k sits in cell
\* (k div cells, k mod cells) of the grid spaced 10 apart, the sensors are at
\* pairwise distinct points, the drones are 50, 51, ..., each inside the box
\* [0, cells * 10] on both axes and at battery 100.
ConstructedOver(num_drones, num_sensors, cells) ==
    /\ DOMAIN sensor_positions = {SensorBase + k : k \in 0..(num_sensors - 1)}
    /\ \A k \in 0..(num_sensors - 1) :
            sensor_positions[SensorBase + k] =
                <<(k \div cells) * GridStep, (k % cells) * GridStep>>
    /\ \A s, t \in DOMAIN sensor_positions :
            s # t => sensor_positions[s] # sensor_positions[t]
    /\ DOMAIN drone_positions = {DroneBase + i : i \in 0..(num_drones - 1)}
    /\ DOMAIN drone_battery = DOMAIN drone_positions
    /\ \A d \in DOMAIN drone_positions :
            /\ drone_positions[d][1] \in 0..(cells * GridStep)
            /\ drone_positions[d][2] \in 0..(cells * GridStep)
            /\ drone_battery[d] = FullBattery

\* C25 as stated: the grid has ceil(sqrt(num_sensors)) + 2 cells per axis.
C25_GridOfCeilSqrt ==
    call.op = "initialize" =>
        ConstructedOver(call.arg[1], call.arg[2], CeilSqrt(call.arg[2]) + 2)

\* C25, amended: after construction the sensors 100, 101, ... sit row-major
\* at pairwise distinct points of a grid with floor(sqrt(num_sensors)) + 2
\* cells per axis spaced 10 apart, the drones 50, 51, ... are inside the box
\* that reaches from 0 to 10 times that cell count on both axes, and every
\* battery is 100.
C25_GridOfFloorSqrt ==
    call.op = "initialize" =>
        ConstructedOver(call.arg[1], call.arg[2], FloorSqrt(call.arg[2]) + 2)

\* A scheduler constructed for a sensor count whose square root is not
\* whole, with sensors in a second row and a drone in the far corner.
C25_Witness ==
    /\ call.op = "initialize"
    /\ CeilSqrt(call.arg[2]) # FloorSqrt(call.arg[2])
    /\ \E s \in DOMAIN sensor_positions : sensor_positions[s][1] > 0
    /\ \E d \in DOMAIN drone_positions :
        drone_positions[d][1] = (FloorSqrt(call.arg[2]) + 2) * GridStep

\* ------------------------------------------------------------ C30
\* The ids of the cloud server and the MEC server.
InfrastructureIds == {CloudNode, MecNode}

\* C30: after construction for any drone and sensor counts the ids of the
\* drones, the ids of the sensors and the ids of the cloud and MEC nodes are
\* pairwise disjoint.
C30_IdSetsDisjoint ==
    call.op = "initialize" =>
        /\ DOMAIN drone_positions \cap DOMAIN sensor_positions = {}
        /\ DOMAIN drone_positions \cap InfrastructureIds = {}
        /\ DOMAIN sensor_positions \cap InfrastructureIds = {}

\* What holds of the code: the id sets are disjoint exactly when the fleet
\* has at most 50 drones or there is no sensor; from 51 drones on, drone
\* 50 + 50 and sensor 100 are the same id.
C30_DisjointUpToFiftyDrones ==
    call.op = "initialize" =>
        /\ (DOMAIN drone_positions \cap DOMAIN sensor_positions = {})
                <=> (call.arg[1] <= SensorBase - DroneBase \/ call.arg[2] = 0)
        /\ DOMAIN drone_positions \cap InfrastructureIds = {}
        /\ DOMAIN sensor_positions \cap InfrastructureIds = {}

\* A fleet of 51 drones over a field with sensors: id 100 is a drone and a
\* sensor.
C30_Witness ==
    /\ call.op = "initialize"
    /\ SensorBase \in DOMAIN drone_positions
    /\ SensorBase \in DOMAIN sensor_positions

\* ------------------------------------------------------------ C27
\* The multiples of 5 from the operating threshold up to a full battery.
BatteryLevels ==
    {MinBattery + TaskDrain * k :
        k \in 0..((FullBattery - MinBattery) \div TaskDrain)}

\* C27: before and after every step every battery is a multiple of 5 between
\* 20 and 100, and a direct schedule_task call that returns a drone finds it
\* at 25 or above and leaves it exactly 5 lower: the clamp min(5, battery)
\* never binds.
C27_BatteriesOnFiveGrid ==
    [][/\ \A d \in DOMAIN drone_battery : drone_battery[d] \in BatteryLevels
       /\ \A d \in DOMAIN drone_battery' : drone_battery'[d] \in BatteryLevels
       /\ Assigned =>
            /\ drone_battery[call'.ret] >= MinBattery + TaskDrain
            /\ drone_battery'[call'.ret] = drone_battery[call'.ret] - TaskDrain
      ]_vars

\* A direct call has just drained a drone to 20, the lowest level, next to a
\* drone that a recharge lifted off the path 100, 95, ... to 40 or 45.
C27_Witness ==
    /\ call.op = "schedule_task"
    /\ call.ret # None
    /\ drone_battery[call.ret] = MinBattery
    /\ \E d \in DOMAIN drone_battery :
        /\ d # call.ret
        /\ drone_battery[d] \in {MinBattery + RechargeStep,
                                  MinBattery + TaskDrain + RechargeStep}

\* ------------------------------------------------------------ C29
\* C29: a direct schedule_task call that returns a drone leaves the position,
\* the battery and the history of every other drone and changes the history
\* of the drone it returns; and no step of any operation changes a sensor
\* position, the set of sensor ids or the set of drone ids.
C29_OnlyChosenDroneChanges ==
    [][/\ Assigned =>
            /\ \A d \in DOMAIN drone_positions :
                    d # call'.ret =>
                        /\ drone_positions'[d] = drone_positions[d]
                        /\ drone_battery'[d] = drone_battery[d]
                        /\ assigned_tasks'[d] = assigned_tasks[d]
            /\ assigned_tasks'[call'.ret] # assigned_tasks[call'.ret]
            /\ drone_battery'[call'.ret] # drone_battery[call'.ret]
       /\ sensor_positions' = sensor_positions
       /\ DOMAIN drone_positions' = DOMAIN drone_positions
       /\ DOMAIN drone_battery' = DOMAIN drone_positions
       /\ DOMAIN assigned_tasks' = DOMAIN drone_positions
      ]_vars

\* A direct call has just moved the drone it returned to a sensor while
\* another drone, with a history and a drained battery, stands elsewhere.
C29_Witness ==
    /\ call.op = "schedule_task"
    /\ call.ret # None
    /\ \E d \in DOMAIN drone_positions :
        /\ d # call.ret
        /\ assigned_tasks[d] # <<>>
        /\ drone_battery[d] < FullBattery
        /\ drone_positions[d] # drone_positions[call.ret]

\* ------------------------------------------------------------ C28
\* C28: in the orchestrator's loop every activation ends with every battery
\* at 30 or above; every scheduling activation starts with every drone above
\* the operating threshold, and the first schedule_task call it makes
\* returns a drone, so that a call without assignment is its second or third.
C28_FirstCallAlwaysAssigns ==
    [][/\ call'.op = "activate"
       /\ \A d \in DOMAIN drone_battery' : drone_battery'[d] >= LowBattery
       /\ activations' % 2 = 0 =>
            /\ \A d \in DOMAIN drone_battery : drone_battery[d] > MinBattery
            /\ Len(call'.returned) >= 1 => call'.returned[1] # None
            /\ \A i \in 1..Len(call'.returned) :
                    call'.returned[i] = None => i \in {2, 3}
      ]_vars

\* A scheduling activation whose first two calls returned a drone and whose
\* third did not has ended with the drone it had drained to 20 back at 40.
C28_Witness ==
    /\ call.op = "activate"
    /\ Len(call.returned) = TasksPerActivation
    /\ call.returned[2] # None
    /\ call.returned[TasksPerActivation] = None
    /\ drone_battery[call.returned[2]] = MinBattery + RechargeStep
    /\ \A d \in DOMAIN drone_battery : drone_battery[d] >= LowBattery

\* ------------------------------------------------------------ C26
\* The step completes a schedule_task call of stream s that returns a drone.
Completes(s) == streams[s].pc = "store" /\ streams'[s].pc = "idle"

\* No stream is inside a call.
AllIdle == \A s \in StreamIds : streams[s].pc = "idle"

\* C26: with calls of several request streams overlapping, the battery a
\* completing assignment lowers is above 20 when it is lowered and ends
\* exactly 5 lower, and whenever no call is in progress every drone with a
\* history stands at the sensor of its last task record with a battery of
\* 20 or more.
C26_OverlappingCallsAtomic ==
    [][/\ \A s \in StreamIds :
            Completes(s) =>
                LET d == streams[s].best_drone
                IN  /\ drone_battery[d] > MinBattery
                    /\ drone_battery'[d] = drone_battery[d] - TaskDrain
       /\ AllIdle' =>
            \A d \in DOMAIN drone_positions' :
                /\ drone_battery'[d] >= MinBattery
                /\ assigned_tasks'[d] # <<>> =>
                        drone_positions'[d] =
                            sensor_positions'[Last(assigned_tasks'[d]).sensor]
      ]_vars

\* Two overlapping calls have both served with the same drone and left it
\* below the operating threshold.
C26_Witness ==
    /\ AllIdle
    /\ \E d \in DOMAIN drone_battery :
        /\ drone_battery[d] < MinBattery
        /\ Len(assigned_tasks[d]) >= 2

====
